---- MODULE Spec2Model ----
(***************************************************************************)
(* Model of src/src/app/api/process-sales/route.js: the webhook handler    *)
(* POST of /api/process-sales with its three helpers checkPhoneNumberInCTM,*)
(* determineAttribution and sendToGA4.                                     *)
(*                                                                         *)
(* One handler invocation per request id.  Every await of the code is a    *)
(* step boundary, so invocations interleave at the two network round trips *)
(* exactly as they do on the event loop.  The outbound calls are recorded  *)
(* in ctmPosts and ga4Posts, as a recording HTTP client would.             *)
(***************************************************************************)
EXTENDS Integers, Sequences, FiniteSets, TLC

VARIABLES
    request,      \* request id -> the body of the inbound HTTP request
    pc,           \* request id -> position of the handler invocation
    locals,       \* request id -> phoneNumber, transactionId, revenue (lines 110-112)
    ctmData,      \* request id -> result of checkPhoneNumberInCTM (line 116)
    attribution,  \* request id -> result of determineAttribution (line 124)
    ga4Response,  \* request id -> result of sendToGA4 (line 127)
    error,        \* request id -> exception caught by POST's catch (line 131)
    response,     \* request id -> the HTTP response returned by POST
    ctmPosts,     \* request id -> the axios.post calls made to CTM
    ga4Posts,     \* request id -> the axios.post calls made to GA4
    ctmLog,       \* the calls CTM holds for the contact number
    now,          \* Date.now(), in milliseconds
    calls,        \* argument of a direct call of determineAttribution
    result        \* value returned by that call

vars == <<request, pc, locals, ctmData, attribution, ga4Response, error,
          response, ctmPosts, ga4Posts, ctmLog, now, calls, result>>

-----------------------------------------------------------------------------
\* Bounds of the model.

\* Longest list of call records CTM returns.
MaxCalls == 2
\* Last millisecond the clock reaches (it starts at 0).
MaxTime == 1

-----------------------------------------------------------------------------
\* JavaScript values.

\* null and undefined, kept apart from every string the model uses.
Null == "<null>"
Undefined == "<undefined>"

\* Truthiness of a string-or-nullish value: null, undefined and "" are falsy.
Truthy(v) == v \notin {Null, Undefined, ""}

\* v || d
OrElse(v, d) == IF Truthy(v) THEN v ELSE d

\* A local that has not been assigned yet.
NotSet == [unset |-> TRUE]

\* Strings the code inspects character by character are sequences of
\* one-character strings.
Digits == {"0", "1", "2", "3", "4", "5", "6", "7", "8", "9"}

\* Values of webhookData.phoneNumber: absent, a string, or a (non-zero) number.
NoPhone == [type |-> "undefined", text |-> <<>>]
StringPhone(s) == [type |-> "string", text |-> s]
NumberPhone == [type |-> "number", text |-> <<"5", "5", "5">>]

PhoneValues ==
    { NoPhone,
      StringPhone(<<>>),
      StringPhone(<<"+", "1", " ", "(", "5", ")", "-", "7">>),
      NumberPhone }

\* !webhookData.phoneNumber is false: a non-empty string or a non-zero number.
PhoneTruthy(p) ==
    \/ p.type = "string" /\ p.text # <<>>
    \/ p.type = "number"

-----------------------------------------------------------------------------
\* Inbound request bodies.

\* A body request.json() cannot parse, the JSON text null, and JSON objects.
JsonInvalid == [json |-> "invalid"]
JsonNull == [json |-> "null"]

Sales ==
    { [transactionId |-> "T1", totalAmountExcludingTax |-> 100],
      [transactionId |-> "T2", totalAmountExcludingTax |-> 250] }

JsonObjects ==
    { [json |-> "object", phoneNumber |-> p, transactionId |-> s.transactionId,
       totalAmountExcludingTax |-> s.totalAmountExcludingTax] :
         p \in PhoneValues, s \in Sales }

Bodies == {JsonInvalid, JsonNull} \cup JsonObjects

-----------------------------------------------------------------------------
\* CTM call records and the value of response.data.calls.

\* A call record is modelled by what the code reads of it: call?.paid?.source,
\* call.paid.medium and call.paid.campaign, Undefined when paid or the field
\* is missing.
CallRecord(s, m, c) == [source |-> s, medium |-> m, campaign |-> c]

CallRecords ==
    { CallRecord(Undefined, Undefined, Undefined),
      CallRecord("", "cpc", "spring"),
      CallRecord(Null, Null, Null),
      CallRecord("google", "cpc", Undefined),
      CallRecord("bing", "organic", "spring"),
      CallRecord("fb", "", ""),
      CallRecord("yahoo", Undefined, Null) }

RECURSIVE SeqsUpTo(_, _)
SeqsUpTo(S, n) ==
    IF n = 0 THEN {<<>>}
    ELSE LET shorter == SeqsUpTo(S, n - 1)
         IN  shorter \cup {Append(s, x) : s \in shorter, x \in S}

CallLists == SeqsUpTo(CallRecords, MaxCalls)

\* An array of call records, and null.
Array(items) == [array |-> TRUE, items |-> items]
NullCalls == [array |-> FALSE, items |-> <<>>]

IsArray(v) == v.array
\* An array, even an empty one, is truthy; null is not.
CallsTruthy(v) == v.array
Length(v) == Len(v.items)


-----------------------------------------------------------------------------
\* checkPhoneNumberInCTM, lines 13-37.

\* phoneNumber.replace(/\D/g, ''), line 14.
contactNumber(text) == SelectSeq(text, LAMBDA c : c \in Digits)

\* The search request body, lines 16-20.
CTMSearchData(text) ==
    [ filter |-> [contact_number |-> contactNumber(text)],
      sort_by |-> "call_started_at",
      sort_order |-> "asc" ]

\* What axios.post to CTM can produce: a rejection (transport error or error
\* response), a response without a calls list, or a response with the calls
\* CTM holds.
CTMResponses(log) ==
    { [kind |-> "error", message |-> "Network Error", calls |-> NullCalls],
      [kind |-> "error", message |-> "Request failed with status code 500",
       calls |-> NullCalls],
      [kind |-> "ok", message |-> "", calls |-> NullCalls],
      [kind |-> "ok", message |-> "", calls |-> Array(log)] }

\* The value checkPhoneNumberInCTM returns once axios.post settled, lines 22-36.
CTMReturnValue(resp) ==
    IF resp.kind = "error" THEN NullCalls
    ELSE IF CallsTruthy(resp.calls) THEN resp.calls
    ELSE NullCalls

-----------------------------------------------------------------------------
\* determineAttribution, lines 43-60.

NoAttribution == [source |-> Null, medium |-> Null, campaign |-> Null]

\* The for loop of lines 48-56, from index i on.
RECURSIVE ScanCalls(_, _)
ScanCalls(items, i) ==
    IF i > Len(items) THEN NoAttribution
    ELSE IF Truthy(items[i].source)
         THEN [ source |-> items[i].source,
                medium |-> items[i].medium,
                campaign |-> OrElse(items[i].campaign, Null) ]
         ELSE ScanCalls(items, i + 1)

\* The loop scanning from the last record down: the last qualifying record wins.
RECURSIVE ScanCallsBackwards(_, _)
ScanCallsBackwards(items, i) ==
    IF i < 1 THEN NoAttribution
    ELSE IF Truthy(items[i].source)
         THEN [ source |-> items[i].source,
                medium |-> items[i].medium,
                campaign |-> OrElse(items[i].campaign, Null) ]
         ELSE ScanCallsBackwards(items, i - 1)

determineAttributionLastWins(v) ==
    IF ~IsArray(v) \/ Length(v) = 0 THEN NoAttribution
    ELSE ScanCallsBackwards(v.items, Len(v.items))

determineAttribution(v) ==
    IF ~IsArray(v) \/ Length(v) = 0 THEN NoAttribution
    ELSE ScanCalls(v.items, 1)

-----------------------------------------------------------------------------
\* sendToGA4, lines 65-94.

\* A client id that does not read the clock.
ClientIdStable(t) == "12345678." \o ToString(0)

\* `12345678.${Date.now()}`, line 69.
ClientId(t) == "12345678." \o ToString(t)

\* The event without the default of campaign.
GA4EventNoCampaignDefault(transactionId, revenue, source, medium, campaign) ==
    [ name |-> "phone_purchase",
      params |-> [ transaction_id |-> transactionId,
                   value |-> revenue,
                   currency |-> "USD",
                   source |-> OrElse(source, "unknown"),
                   medium |-> OrElse(medium, "unknown"),
                   campaign |-> campaign ] ]

\* The event of lines 71-81.
GA4Event(transactionId, revenue, source, medium, campaign) ==
    [ name |-> "phone_purchase",
      params |-> [ transaction_id |-> transactionId,
                   value |-> revenue,
                   currency |-> "USD",
                   source |-> OrElse(source, "unknown"),
                   medium |-> OrElse(medium, "unknown"),
                   campaign |-> OrElse(campaign, "unknown") ] ]

\* The payload of lines 68-83, built at time t.
GA4Payload(t, transactionId, revenue, source, medium, campaign) ==
    [ client_id |-> ClientId(t),
      events |-> <<GA4Event(transactionId, revenue, source, medium, campaign)>> ]

\* What axios.post to GA4 can produce: a 2xx response or a rejection.
GA4Responses ==
    { [kind |-> "ok", status |-> 200, message |-> ""],
      [kind |-> "ok", status |-> 204, message |-> ""],
      [kind |-> "error", status |-> 0, message |-> "Network Error"],
      [kind |-> "error", status |-> 500,
       message |-> "Request failed with status code 500"] }

-----------------------------------------------------------------------------
\* HTTP responses of POST.

\* A response without a body.
EmptyBody == [empty |-> TRUE]
NotResponded == [status |-> 0, body |-> EmptyBody]

\* NextResponse.json(body, {status}) and new NextResponse(null, {status}).
NextResponseJson(body, status) == [status |-> status, body |-> body]
NextResponseNull(status) == [status |-> status, body |-> EmptyBody]

\* Line 107.
NoPhoneResponse == NextResponseJson([message |-> "No phone number found"], 404)
\* Line 120.
NoMatchResponse == NextResponseNull(204)

\* A success body that reports a fixed status.
SuccessBodyFixedStatus(ga4) ==
    [message |-> "Data successfully sent to GA4", ga4Status |-> 200]

\* The body of line 130.
SuccessBody(ga4) ==
    [message |-> "Data successfully sent to GA4", ga4Status |-> ga4.status]

\* Lines 133-136.
ErrorResponse(message) ==
    NextResponseJson([message |-> "Internal Server Error", error |-> message], 500)

\* No exception caught.
NoError == [at |-> "none", message |-> ""]

\* Messages of the exceptions the runtime raises.
JsonSyntaxError == "Unexpected token in JSON"
NullPayloadTypeError == "Cannot read properties of null (reading 'phoneNumber')"
ReplaceTypeError == "phoneNumber.replace is not a function"
UndefinedStatusTypeError == "Cannot read properties of undefined (reading 'status')"

\* A check that only tells a list from null.
NoMatchNullOnly(v) == ~CallsTruthy(v)

\* !ctmData || ctmData.length === 0, line 118.
NoMatch(v) == ~CallsTruthy(v) \/ Length(v) = 0

\* A validation that lets every payload through.
PhonePresentAlways(p) == TRUE

\* The negation of line 105's condition.
PhonePresent(p) == PhoneTruthy(p)

-----------------------------------------------------------------------------
\* The handler POST, lines 99-138, one invocation per request id.

Requests == DOMAIN request

\* The state at the start of the invocations for the request bodies reqs, with
\* CTM holding the calls log.
InitHandlers(reqs, log) ==
    /\ request = reqs
    /\ pc = [r \in DOMAIN reqs |-> "RECEIVED"]
    /\ locals = [r \in DOMAIN reqs |-> NotSet]
    /\ ctmData = [r \in DOMAIN reqs |-> NotSet]
    /\ attribution = [r \in DOMAIN reqs |-> NotSet]
    /\ ga4Response = [r \in DOMAIN reqs |-> NotSet]
    /\ error = [r \in DOMAIN reqs |-> NoError]
    /\ response = [r \in DOMAIN reqs |-> NotResponded]
    /\ ctmPosts = [r \in DOMAIN reqs |-> <<>>]
    /\ ga4Posts = [r \in DOMAIN reqs |-> <<>>]
    /\ ctmLog = log
    /\ now = 0

\* return of a response, lines 107, 120, 130.
Respond(r, resp) ==
    /\ response' = [response EXCEPT ![r] = resp]
    /\ pc' = [pc EXCEPT ![r] = "RESPONDED"]

\* The catch block of lines 131-137, for an exception with the given message
\* raised at the given step.
Catch(r, step, message) ==
    /\ error' = [error EXCEPT ![r] = [at |-> step, message |-> message]]
    /\ Respond(r, ErrorResponse(message))

\* Lines 100-112: read the body, validate it, take the three fields.
Validate(r) ==
    /\ pc[r] = "RECEIVED"
    /\ LET webhookData == request[r] IN
       IF webhookData.json = "invalid"
       THEN /\ Catch(r, "read", JsonSyntaxError)
            /\ UNCHANGED locals
       ELSE IF webhookData.json = "null"
       THEN /\ Catch(r, "validate", NullPayloadTypeError)
            /\ UNCHANGED locals
       ELSE IF ~PhonePresent(webhookData.phoneNumber)
       THEN /\ Respond(r, NoPhoneResponse)
            /\ UNCHANGED <<locals, error>>
       ELSE /\ locals' = [locals EXCEPT ![r] =
                            [ phoneNumber |-> webhookData.phoneNumber,
                              transactionId |-> webhookData.transactionId,
                              revenue |-> webhookData.totalAmountExcludingTax ]]
            /\ pc' = [pc EXCEPT ![r] = "VALIDATED"]
            /\ UNCHANGED <<error, response>>
    /\ UNCHANGED <<request, ctmData, attribution, ga4Response, ctmPosts,
                   ga4Posts, ctmLog, now, calls, result>>

\* The call of line 116 with the normalization inside the try of line 22: a
\* phone number that is no string makes checkPhoneNumberInCTM return null.
CTMSendNormalizeInTry(r) ==
    /\ pc[r] = "VALIDATED"
    /\ IF locals[r].phoneNumber.type # "string"
       THEN /\ ctmData' = [ctmData EXCEPT ![r] = NullCalls]
            /\ pc' = [pc EXCEPT ![r] = "CTM_LOOKED_UP"]
            /\ UNCHANGED <<ctmPosts, error, response>>
       ELSE /\ ctmPosts' = [ctmPosts EXCEPT ![r] = Append(@,
                    [ data |-> CTMSearchData(locals[r].phoneNumber.text),
                      outcome |-> "pending" ])]
            /\ pc' = [pc EXCEPT ![r] = "AWAIT_CTM"]
            /\ UNCHANGED <<ctmData, error, response>>
    /\ UNCHANGED <<request, locals, attribution, ga4Response, ga4Posts,
                   ctmLog, now, calls, result>>

\* Line 116 down to the await of line 23: normalize the phone number (a value
\* without replace() throws, outside the try of line 22) and post the search.
CTMSend(r) ==
    /\ pc[r] = "VALIDATED"
    /\ IF locals[r].phoneNumber.type # "string"
       THEN /\ Catch(r, "normalize", ReplaceTypeError)
            /\ UNCHANGED ctmPosts
       ELSE /\ ctmPosts' = [ctmPosts EXCEPT ![r] = Append(@,
                    [ data |-> CTMSearchData(locals[r].phoneNumber.text),
                      outcome |-> "pending" ])]
            /\ pc' = [pc EXCEPT ![r] = "AWAIT_CTM"]
            /\ UNCHANGED <<error, response>>
    /\ UNCHANGED <<request, locals, ctmData, attribution, ga4Response,
                   ga4Posts, ctmLog, now, calls, result>>

\* The settled post, its outcome recorded.
Settle(posts, outcome) == [posts EXCEPT ![Len(posts)].outcome = outcome]

\* checkPhoneNumberInCTM with a catch that throws the error on.
CTMCompleteRethrow(r, resp) ==
    /\ ctmPosts' = [ctmPosts EXCEPT ![r] = Settle(@, resp.kind)]
    /\ IF resp.kind = "error"
       THEN /\ Catch(r, "ctm", resp.message)
            /\ UNCHANGED ctmData
       ELSE /\ ctmData' = [ctmData EXCEPT ![r] = CTMReturnValue(resp)]
            /\ pc' = [pc EXCEPT ![r] = "CTM_LOOKED_UP"]
            /\ UNCHANGED <<error, response>>

\* checkPhoneNumberInCTM with a catch that posts the search once more.
CTMCompleteRetry(r, resp) ==
    IF resp.kind = "error" /\ Len(ctmPosts[r]) < 2
    THEN /\ ctmPosts' = [ctmPosts EXCEPT ![r] = Append(Settle(@, resp.kind),
                 [ data |-> CTMSearchData(locals[r].phoneNumber.text),
                   outcome |-> "pending" ])]
         /\ UNCHANGED <<ctmData, pc, error, response>>
    ELSE /\ ctmPosts' = [ctmPosts EXCEPT ![r] = Settle(@, resp.kind)]
         /\ ctmData' = [ctmData EXCEPT ![r] = CTMReturnValue(resp)]
         /\ pc' = [pc EXCEPT ![r] = "CTM_LOOKED_UP"]
         /\ UNCHANGED <<error, response>>

\* Lines 23-36 and the assignment of line 116: the post settled with resp,
\* checkPhoneNumberInCTM returns and ctmData is assigned.
CTMComplete(r, resp) ==
    /\ ctmPosts' = [ctmPosts EXCEPT ![r] = Settle(@, resp.kind)]
    /\ ctmData' = [ctmData EXCEPT ![r] = CTMReturnValue(resp)]
    /\ pc' = [pc EXCEPT ![r] = "CTM_LOOKED_UP"]
    /\ UNCHANGED <<error, response>>

\* The CTM round trip ends.
CTMReturn(r) ==
    /\ pc[r] = "AWAIT_CTM"
    /\ \E resp \in CTMResponses(ctmLog) : CTMComplete(r, resp)
    /\ UNCHANGED <<request, locals, attribution, ga4Response, ga4Posts,
                   ctmLog, now, calls, result>>

\* Lines 117-124: skip without a match, else determine the attribution.
Attribute(r) ==
    /\ pc[r] = "CTM_LOOKED_UP"
    /\ IF NoMatch(ctmData[r])
       THEN /\ Respond(r, NoMatchResponse)
            /\ UNCHANGED attribution
       ELSE /\ attribution' = [attribution EXCEPT ![r] =
                                 determineAttribution(ctmData[r])]
            /\ pc' = [pc EXCEPT ![r] = "ATTRIBUTED"]
            /\ UNCHANGED response
    /\ UNCHANGED <<request, locals, ctmData, ga4Response, error, ctmPosts,
                   ga4Posts, ctmLog, now, calls, result>>

\* Line 127 down to the await of line 86: build the payload, reading the
\* clock, and post it.  at records the value Date.now() returned.
GA4Send(r) ==
    /\ pc[r] = "ATTRIBUTED"
    /\ ga4Posts' = [ga4Posts EXCEPT ![r] = Append(@,
            [ payload |-> GA4Payload(now, locals[r].transactionId,
                                     locals[r].revenue, attribution[r].source,
                                     attribution[r].medium,
                                     attribution[r].campaign),
              at |-> now,
              outcome |-> "pending",
              status |-> 0,
              message |-> "" ])]
    /\ pc' = [pc EXCEPT ![r] = "AWAIT_GA4"]
    /\ UNCHANGED <<request, locals, ctmData, attribution, ga4Response, error,
                   response, ctmPosts, ctmLog, now, calls, result>>

\* The settled GA4 post, with the status or the error message received.
SettleGA4(posts, resp) ==
    [posts EXCEPT ![Len(posts)].outcome = resp.kind,
                  ![Len(posts)].status = resp.status,
                  ![Len(posts)].message = resp.message]

\* sendToGA4 with a catch that only logs: it returns undefined, and line 128
\* throws on ga4Response.status.
GA4CompleteSwallow(r, resp) ==
    /\ ga4Posts' = [ga4Posts EXCEPT ![r] = SettleGA4(@, resp)]
    /\ IF resp.kind = "error"
       THEN /\ Catch(r, "respond", UndefinedStatusTypeError)
            /\ UNCHANGED ga4Response
       ELSE /\ ga4Response' = [ga4Response EXCEPT ![r] = [status |-> resp.status]]
            /\ pc' = [pc EXCEPT ![r] = "FORWARDED"]
            /\ UNCHANGED <<error, response>>

\* Lines 86-93 and the assignment of line 127: the post settled with resp;
\* sendToGA4 returns the response or throws the error on to POST.
GA4Complete(r, resp) ==
    /\ ga4Posts' = [ga4Posts EXCEPT ![r] = SettleGA4(@, resp)]
    /\ IF resp.kind = "error"
       THEN /\ Catch(r, "ga4", resp.message)
            /\ UNCHANGED ga4Response
       ELSE /\ ga4Response' = [ga4Response EXCEPT ![r] = [status |-> resp.status]]
            /\ pc' = [pc EXCEPT ![r] = "FORWARDED"]
            /\ UNCHANGED <<error, response>>

\* The GA4 round trip ends.
GA4Return(r) ==
    /\ pc[r] = "AWAIT_GA4"
    /\ \E resp \in GA4Responses : GA4Complete(r, resp)
    /\ UNCHANGED <<request, locals, ctmData, attribution, ctmPosts, ctmLog,
                   now, calls, result>>

\* Lines 128-130: the success response.
RespondSuccess(r) ==
    /\ pc[r] = "FORWARDED"
    /\ Respond(r, NextResponseJson(SuccessBody(ga4Response[r]), 200))
    /\ UNCHANGED <<request, locals, ctmData, attribution, ga4Response, error,
                   ctmPosts, ga4Posts, ctmLog, now, calls, result>>

\* A millisecond passes.
Tick ==
    /\ now < MaxTime
    /\ now' = now + 1
    /\ UNCHANGED <<request, pc, locals, ctmData, attribution, ga4Response,
                   error, response, ctmPosts, ga4Posts, ctmLog, calls, result>>

\* A direct call of determineAttribution(calls).
CallDetermineAttribution ==
    /\ result = NotSet
    /\ result' = determineAttribution(calls)
    /\ UNCHANGED <<request, pc, locals, ctmData, attribution, ga4Response,
                   error, response, ctmPosts, ga4Posts, ctmLog, now, calls>>

-----------------------------------------------------------------------------
\* Specifications.

NoRequests == [r \in {} |-> JsonNull]

\* One request, any body, any call log.
Init ==
    /\ \E body \in Bodies, log \in CallLists :
          InitHandlers([r \in {1} |-> body], log)
    /\ calls = NullCalls
    /\ result = NotSet

\* The same body sent twice.
InitTwice ==
    /\ \E body \in Bodies, log \in CallLists :
          InitHandlers([r \in {1, 2} |-> body], log)
    /\ calls = NullCalls
    /\ result = NotSet

\* determineAttribution called on null and on every list.
InitAttribution ==
    /\ InitHandlers(NoRequests, <<>>)
    /\ calls \in {NullCalls} \cup {Array(l) : l \in CallLists}
    /\ result = NotSet

Next ==
    \/ \E r \in Requests : Validate(r)
    \/ \E r \in Requests : CTMSend(r)
    \/ \E r \in Requests : CTMReturn(r)
    \/ \E r \in Requests : Attribute(r)
    \/ \E r \in Requests : GA4Send(r)
    \/ \E r \in Requests : GA4Return(r)
    \/ \E r \in Requests : RespondSuccess(r)
    \/ Tick

NextAttribution == CallDetermineAttribution

Spec == Init /\ [][Next]_vars
SpecTwice == InitTwice /\ [][Next]_vars
SpecAttribution == InitAttribution /\ [][NextAttribution]_vars

-----------------------------------------------------------------------------
\* Properties.

\* The request got its HTTP response.
Responded(r) == pc[r] = "RESPONDED"

\* The CTM search of r failed (axios.post rejected).
CTMFailed(r) == \E i \in 1..Len(ctmPosts[r]) : ctmPosts[r][i].outcome = "error"

\* The GA4 post of r was made and settled with the given outcome.
GA4Settled(r, outcome) ==
    /\ ga4Posts[r] # <<>>
    /\ ga4Posts[r][1].outcome = outcome

\* The 204 response without a body.
Is204(resp) == resp = [status |-> 204, body |-> [empty |-> TRUE]]

\* The 500 response with the given error text.
Is500(resp, text) ==
    resp = [status |-> 500,
            body |-> [message |-> "Internal Server Error", error |-> text]]

\* C1: a request whose payload has no phoneNumber is answered 404 with
\* {message: "No phone number found"}, and neither the CTM search nor the GA4
\* post is ever made for it.
C1_NoPhone404 ==
    \A r \in Requests :
        (request[r].json = "object" /\ request[r].phoneNumber.type = "undefined")
        => /\ ctmPosts[r] = <<>>
           /\ ga4Posts[r] = <<>>
           /\ pc[r] \in {"RECEIVED", "RESPONDED"}
           /\ Responded(r) =>
                response[r] = [status |-> 404,
                               body |-> [message |-> "No phone number found"]]

C1_Witness ==
    \E r \in Requests :
        /\ request[r].json = "object"
        /\ request[r].phoneNumber.type = "undefined"
        /\ Responded(r)

\* C2: when the CTM lookup of a request with a phoneNumber returned null or an
\* empty list, the response is 204 without a body and GA4 is never contacted.
C2_NoMatch204 ==
    \A r \in Requests :
        ctmData[r] \in {NullCalls, Array(<<>>)}
        => /\ request[r].json = "object"
           /\ ga4Posts[r] = <<>>
           /\ pc[r] \in {"CTM_LOOKED_UP", "RESPONDED"}
           /\ Responded(r) => Is204(response[r])

C2_Witness ==
    \E r \in Requests : ctmData[r] = Array(<<>>) /\ Responded(r)

\* C3: when the CTM search failed, it was posted once only, the lookup
\* returned null, and the request ends like one without a match: 204, never
\* 500, and no GA4 post.
C3_CTMFailure204 ==
    \A r \in Requests :
        CTMFailed(r)
        => /\ Len(ctmPosts[r]) = 1
           /\ ctmData[r] = NullCalls
           /\ ga4Posts[r] = <<>>
           /\ error[r] = NoError
           /\ pc[r] \in {"CTM_LOOKED_UP", "RESPONDED"}
           /\ Responded(r) => Is204(response[r])

C3_Witness ==
    \E r \in Requests : CTMFailed(r) /\ Responded(r)

\* C4: when CTM returned at least one record and the GA4 post succeeded, the
\* response is 200 with the success message and, as ga4Status, the status of
\* the GA4 response received for this request.
C4_Success200 ==
    \A r \in Requests :
        GA4Settled(r, "ok")
        => /\ ctmData[r].array /\ Len(ctmData[r].items) >= 1
           /\ pc[r] \in {"FORWARDED", "RESPONDED"}
           /\ Responded(r) =>
                response[r] =
                    [status |-> 200,
                     body |-> [message |-> "Data successfully sent to GA4",
                               ga4Status |-> ga4Posts[r][1].status]]

C4_Witness ==
    \E r \in Requests :
        GA4Settled(r, "ok") /\ ga4Posts[r][1].status = 204 /\ Responded(r)

\* C5: when the GA4 post failed, the failure reached POST's catch, and the
\* response is 500 with {message: "Internal Server Error", error: <the
\* failure's message>} and nothing else, although the CTM lookup succeeded.
C5_GA4Failure500 ==
    \A r \in Requests :
        GA4Settled(r, "error")
        => /\ error[r] = [at |-> "ga4", message |-> ga4Posts[r][1].message]
           /\ Responded(r)
           /\ Is500(response[r], ga4Posts[r][1].message)
           /\ DOMAIN response[r].body = {"message", "error"}
           /\ ctmPosts[r][1].outcome = "ok"
           /\ ctmData[r].array /\ Len(ctmData[r].items) >= 1

C5_Witness ==
    \E r \in Requests : GA4Settled(r, "error") /\ Responded(r)

\* C6, as stated: every exception raised at a step of the sequence, the
\* rejection of the CTM search included, ends in a 500 response.
C6_AnyException500 ==
    \A r \in Requests :
        ((error[r] # NoError \/ CTMFailed(r)) /\ Responded(r))
        => response[r].status = 500

\* C6, amended: every exception that reaches POST (from reading the body,
\* validating it, normalizing the phone number, or the GA4 step) ends in a
\* 500 response with "Internal Server Error" and the exception's message; the
\* rejection of the CTM search is caught in checkPhoneNumberInCTM and never
\* reaches POST.
C6_UncaughtException500 ==
    \A r \in Requests :
        /\ (request[r].json = "invalid" /\ pc[r] # "RECEIVED")
             => error[r].at = "read"
        /\ (request[r].json = "null" /\ pc[r] # "RECEIVED")
             => error[r].at = "validate"
        /\ ( /\ request[r].json = "object"
             /\ request[r].phoneNumber.type = "number"
             /\ pc[r] \notin {"RECEIVED", "VALIDATED"} )
             => error[r].at = "normalize"
        /\ GA4Settled(r, "error")
             => error[r] = [at |-> "ga4", message |-> ga4Posts[r][1].message]
        /\ error[r] # NoError
             => /\ Responded(r)
                /\ Is500(response[r], error[r].message)
        /\ CTMFailed(r) => error[r] = NoError

C6_Witness ==
    \E r \in Requests :
        /\ request[r].json = "object"
        /\ request[r].phoneNumber.type = "number"
        /\ error[r].at = "normalize"
        /\ Responded(r)

\* The six states of a request, in order; while a round trip is under way
\* the request is still in the state it left from.
StateOrder ==
    <<"RECEIVED", "VALIDATED", "CTM_LOOKED_UP", "ATTRIBUTED", "FORWARDED",
      "RESPONDED">>

StateOf(p) ==
    IF p = "AWAIT_CTM" THEN "VALIDATED"
    ELSE IF p = "AWAIT_GA4" THEN "ATTRIBUTED"
    ELSE p

Rank(p) == CHOOSE i \in 1..Len(StateOrder) : StateOrder[i] = StateOf(p)

Pending(posts) == \E i \in 1..Len(posts) : posts[i].outcome = "pending"

\* At most one CTM search and one GA4 post, never both under way; a GA4 post
\* exists only once the CTM search returned a list with a record; a request
\* that got its response has no call under way.
C7_Calls ==
    \A r \in Requests :
        /\ Len(ctmPosts[r]) <= 1
        /\ Len(ga4Posts[r]) <= 1
        /\ ~(Pending(ctmPosts[r]) /\ Pending(ga4Posts[r]))
        /\ ga4Posts[r] # <<>>
             => /\ ctmPosts[r] # <<>>
                /\ ctmPosts[r][1].outcome = "ok"
                /\ ctmData[r].array /\ Len(ctmData[r].items) >= 1
        /\ Responded(r) => ~Pending(ctmPosts[r]) /\ ~Pending(ga4Posts[r])

\* A step never takes a request back in the order of its states, posts to
\* GA4 only when the CTM search has returned, and never changes a response
\* once given.
C7_Step ==
    \A r \in Requests :
        /\ Rank(pc'[r]) >= Rank(pc[r])
        /\ ga4Posts'[r] # ga4Posts[r] /\ ga4Posts[r] = <<>>
             => ~Pending(ctmPosts[r]) /\ ctmData[r].array
        /\ Responded(r) => pc'[r] = pc[r] /\ response'[r] = response[r]
                           /\ ctmPosts'[r] = ctmPosts[r]
                           /\ ga4Posts'[r] = ga4Posts[r]

\* C7: one request makes at most one CTM search and at most one GA4 post,
\* neither retried; the GA4 post starts only after the CTM search returned a
\* list with at least one record; the response comes only after every
\* outbound call completed; the request moves through RECEIVED, VALIDATED,
\* CTM_LOOKED_UP, ATTRIBUTED, FORWARDED, RESPONDED in this order and revisits
\* none.
C7_Sequential == [](C7_Calls) /\ [][C7_Step]_vars

C7_Witness ==
    \E r \in Requests :
        /\ Responded(r)
        /\ response[r].status = 200
        /\ Len(ctmPosts[r]) = 1
        /\ Len(ga4Posts[r]) = 1

\* Both requests carry the same payload, and the CTM search and the GA4 post
\* of both succeeded.
SentTwice(r1, r2) ==
    /\ r1 # r2
    /\ request[r1] = request[r2]
    /\ GA4Settled(r1, "ok")
    /\ GA4Settled(r2, "ok")

\* C8, as stated: the same payload sent twice with all calls succeeding gives
\* two GA4 events with different client ids.
C8_DistinctClientIds ==
    \A r1, r2 \in Requests :
        SentTwice(r1, r2)
        => ga4Posts[r1][1].payload.client_id # ga4Posts[r2][1].payload.client_id

\* C8, amended: the same payload sent twice with all calls succeeding gives
\* two GA4 events, one per request, each with a client id made of the fixed
\* prefix and the millisecond in which it was built; the two ids differ
\* exactly when the two events were built in different milliseconds.
C8_ClientIdsPerMillisecond ==
    \A r1, r2 \in Requests :
        SentTwice(r1, r2)
        => /\ Len(ga4Posts[r1]) = 1 /\ Len(ga4Posts[r2]) = 1
           /\ Len(ga4Posts[r1][1].payload.events) = 1
           /\ Len(ga4Posts[r2][1].payload.events) = 1
           /\ (ga4Posts[r1][1].payload.client_id = ga4Posts[r2][1].payload.client_id)
                <=> (ga4Posts[r1][1].at = ga4Posts[r2][1].at)

C8_Witness ==
    \E r1, r2 \in Requests :
        /\ SentTwice(r1, r2)
        /\ ga4Posts[r1][1].at # ga4Posts[r2][1].at
        /\ Responded(r1) /\ Responded(r2)

\* The params C9 describes, with "unknown" in place of the values in blank.
ExpectedParams(r, blank) ==
    [ transaction_id |-> request[r].transactionId,
      value |-> request[r].totalAmountExcludingTax,
      currency |-> "USD",
      source |-> IF attribution[r].source \in blank
                 THEN "unknown" ELSE attribution[r].source,
      medium |-> IF attribution[r].medium \in blank
                 THEN "unknown" ELSE attribution[r].medium,
      campaign |-> IF attribution[r].campaign \in blank
                   THEN "unknown" ELSE attribution[r].campaign ]

\* Every GA4 post carries one phone_purchase event with the expected params,
\* the resolver's values being those for this request's CTM calls; and a
\* request with records none of which has a source still posts, all unknown.
EventsAsExpected(blank) ==
    \A r \in Requests :
        /\ \A i \in 1..Len(ga4Posts[r]) :
             /\ Len(ga4Posts[r][i].payload.events) = 1
             /\ ga4Posts[r][i].payload.events[1].name = "phone_purchase"
             /\ ga4Posts[r][i].payload.events[1].params = ExpectedParams(r, blank)
             /\ attribution[r] = determineAttribution(ctmData[r])
             /\ (\A k \in 1..Len(ctmData[r].items) :
                    ctmData[r].items[k].source \in {Null, Undefined, ""})
                => /\ ga4Posts[r][i].payload.events[1].params.source = "unknown"
                   /\ ga4Posts[r][i].payload.events[1].params.medium = "unknown"
                   /\ ga4Posts[r][i].payload.events[1].params.campaign = "unknown"
        /\ ( /\ Responded(r)
             /\ ctmData[r] # NotSet
             /\ ctmData[r].array
             /\ Len(ctmData[r].items) >= 1 )
           => ga4Posts[r] # <<>>

\* C9, as stated: source, medium and campaign are replaced by "unknown" when
\* null or absent, and only then.
C9_UnknownWhenNullOrAbsent == EventsAsExpected({Null, Undefined})

\* C9, amended: every GA4 post carries exactly one phone_purchase event with
\* the request's transactionId and totalAmountExcludingTax, currency "USD",
\* and the resolver's source, medium and campaign, each replaced by "unknown"
\* when null, absent or the empty string; when CTM returned records none of
\* which carries paid.source, the event is still sent, all three "unknown".
C9_UnknownWhenFalsy == EventsAsExpected({Null, Undefined, ""})

C9_Witness ==
    \E r \in Requests :
        /\ ga4Posts[r] # <<>>
        /\ attribution[r].source = "fb"
        /\ attribution[r].medium = ""
        /\ ga4Posts[r][1].payload.events[1].params.medium = "unknown"

\* The result C10 describes for the argument v.
FirstQualifying(v) ==
    LET qualifying == IF v.array
                      THEN {i \in 1..Len(v.items) :
                              v.items[i].source \notin {Null, Undefined, ""}}
                      ELSE {}
    IN  IF qualifying = {}
        THEN [source |-> Null, medium |-> Null, campaign |-> Null]
        ELSE LET first == CHOOSE i \in qualifying :
                              \A j \in qualifying : i <= j
             IN  [ source |-> v.items[first].source,
                   medium |-> v.items[first].medium,
                   campaign |-> IF v.items[first].campaign \in {Undefined, ""}
                                THEN Null ELSE v.items[first].campaign ]

\* C10: determineAttribution returns source, medium and campaign of the first
\* record, in the given order, whose paid.source is present and non-empty,
\* campaign null when that record has none or an empty one; and all three
\* null when no record qualifies or the argument is empty or absent.
C10_FirstQualifyingWins ==
    result # NotSet => result = FirstQualifying(calls)

C10_Witness ==
    /\ result # NotSet
    /\ calls.array
    /\ Len(calls.items) = 2
    /\ Truthy(calls.items[1].source)
    /\ Truthy(calls.items[2].source)
    /\ calls.items[1].source # calls.items[2].source
    /\ result.source = calls.items[1].source

=============================================================================
